---- MODULE Spec2Model ----
(***************************************************************************)
(* arc2arc_primer: one-object migration scripts between two Arc tenants.  *)
(* The model covers the object pipelines (doit of every script), the       *)
(* cross-tenant distributor / geographic-restriction resolver of           *)
(* dist_ref_id.py, and the destination tenant's settings service as the    *)
(* state the resolver reads and writes.  Collaborator responses are the    *)
(* inputs of each handler, drawn with \E.                                  *)
(***************************************************************************)
EXTENDS Integers, Sequences, FiniteSets, TLC

\* ------------------------------------------------------------------ bounds
MaxRestr == 2      \* restrictions nested in the source distributor
MaxGeo == 2        \* geo-restrictions referenced by a video document
MaxRedirects == 2  \* document-level redirects of a story
MaxPage == 2       \* redirects in one page of the bulk scan
MaxPages == 2      \* pages with results the scan serves
MaxCap == 2        \* largest --test-run cap tried
MaxAuthors == 3    \* authors the source tenant lists

\* ------------------------------------------------------------ value domain
\* Python None stored in a field, and a key that is not in the document.
Null == "null"
Absent == "absent"

\* The id of the distributor the source document references, in the source tenant.
SrcDistId == "sd1"

\* Names a tenant entity can carry.  "7" and "8" are names that are also JSON
\* values (a number): a JMESPath `...` literal built from them is not a string.
DistNames == {"AP", "7"}
RestrName(i) == IF i = 1 THEN "ra" ELSE IF i = 2 THEN "8" ELSE "r" \o ToString(i)
GeoName(i) == "g" \o ToString(i)
JsonValuedNames == {"7", "8"}

SrcRestrId(name) == "sr-" \o name
SrcGeoId(name) == "sg-" \o name

\* The destination tenant assigns the id of an entity it creates.  Names are
\* unique per tenant and nothing is deleted, so an entity's id is modelled as a
\* function of its kind and name: distinct entities get distinct ids, and no
\* destination id equals a source id.
TgtDistId(name) == "td-" \o name
TgtRestrId(name) == "tr-" \o name
TgtGeoId(name) == "tg-" \o name

Range(s) == {s[i] : i \in 1..Len(s)}

\* A Python dict as a function; {} is the function with the empty domain.
EmptyDict == [k \in {} |-> Null]
DictGet(d, k, default) == IF k \in DOMAIN d THEN d[k] ELSE default
DictUpdate(d, e) == [k \in (DOMAIN d) \cup (DOMAIN e) |-> IF k \in DOMAIN e THEN e[k] ELSE d[k]]
Truthy(v) == v \notin {Null, Absent, ""}

\* ---------------------------------------------------------------- state
VARIABLES
    kind,         \* which script runs (the class whose doit is called)
    dry_run,      \* self.dry_run
    source,       \* the source tenant: the document's distributor, restrictions, geo-restrictions
    tenant,       \* the destination tenant's settings: names of its distributors, restrictions, geo-restrictions
    ans,          \* self.ans
    circulation,  \* self.circulation (story)
    references,   \* self.references (the report)
    validation,   \* self.validation
    message,      \* self.message
    pc,           \* index in doit of the next handler to call
    status,       \* "running", or how doit ended
    log,          \* the handlers entered and the HTTP calls issued by this run, in order
    faulted,      \* some collaborator call of this run failed for a reason other than the tenant's state
    prev,         \* what create_target_distributor_restrictions did the last time it ran before this run
    bulk          \* the bulk redirect driver: searchFrom, scrollId, runcount, test_run, queries made

vars == <<kind, dry_run, source, tenant, ans, circulation, references, validation,
          message, pc, status, log, faulted, prev, bulk>>

\* ------------------------------------------------------------ log entries
Entry(what, name, ok, body) == [what |-> what, name |-> name, ok |-> ok, body |-> body]
StepEntry(name) == Entry("step", name, TRUE, <<>>)
Post(name, ok, body) == Entry("POST", name, ok, body)
Get(name, ok) == Entry("GET", name, ok, <<>>)

Posts(l, name) == {i \in 1..Len(l) : l[i].what = "POST" /\ l[i].name = name}
OkPosts(l, name) == {i \in Posts(l, name) : l[i].ok}

\* ------------------------------------------------- by-name lookup (JMESPath)
\* The value of the JMESPath literal `text`: the lexer parses the text between
\* the backticks as JSON and only falls back to a string when that fails.
JsonLiteral(text) ==
    IF text \in JsonValuedNames THEN [type |-> "number", text |-> text]
                                ELSE [type |-> "string", text |-> text]

\* jmespath.search("[*] | [?name==`<queried>`].id", rows): the names among rows
\* that equal the literal.  rows is the set of names listed, {} for a listing
\* that failed (rows = None searches to None).
NamesMatching(rows, queried) ==
    {n \in rows : [type |-> "string", text |-> n] = JsonLiteral(queried)}

\* ------------------------------------------------------- dist_ref_id.py
find_reference_id(a) == IF Truthy(a.dist_ref) THEN a.dist_ref ELSE ""

\* r.srcGet1, r.tgtList: whether the two GETs answer with a success body.
rewrite_reference_id(source_dist_id, src, tn, r) ==
    LET source_distributor == IF r.srcGet1 THEN src.distName ELSE "undefined"
        target_distributors == IF r.tgtList THEN tn.dist ELSE {}
        found == NamesMatching(target_distributors, source_distributor)
        target_dist_id == IF found = {} THEN Null ELSE TgtDistId(CHOOSE n \in found : TRUE)
    IN  [target_dist_id |-> target_dist_id,
         dist_source_target_ids |-> (source_dist_id :> target_dist_id)]

\* The POST of one restriction: the destination refuses a second restriction of
\* the same name; otherwise the call succeeds unless the service fails (r).
RestrPostOk(tn, name, answer) == name \notin tn.restr /\ answer

\* The loop over transformed_ans["restrictions"], from restriction i on.
\* acc = [tn, new_restr_ids, log, faulted].
RECURSIVE RestrictionLoop(_, _, _, _, _)
RestrictionLoop(restrs, i, all_restrictions, r, acc) ==
    IF i > Len(restrs) THEN acc
    ELSE LET name == restrs[i]
             ok == RestrPostOk(acc.tn, name, r.restrPost[i])
             existing_restr_id == NamesMatching(all_restrictions, name)
             ids == IF ok THEN <<TgtRestrId(name)>> \o acc.new_restr_ids
                    ELSE IF existing_restr_id # {}
                         THEN <<TgtRestrId(CHOOSE n \in existing_restr_id : TRUE)>> \o acc.new_restr_ids
                         ELSE acc.new_restr_ids
         IN  RestrictionLoop(restrs, i + 1, all_restrictions, r,
                [tn |-> IF ok THEN [acc.tn EXCEPT !.restr = @ \cup {name}] ELSE acc.tn,
                 new_restr_ids |-> ids,
                 log |-> Append(acc.log, Post("restriction", ok, <<name>>)),
                 faulted |-> acc.faulted \/ (name \notin acc.tn.restr /\ ~r.restrPost[i])])

\* The POST of the distributor: refused when the destination already has a
\* distributor of that name, and then the error body may name it
\* (context.distributor.id) or not.
DistPostOk(tn, name, answer) == name \notin tn.dist /\ answer

create_target_distributor_restrictions(a, src, tn, r) ==
    LET dist_id == find_reference_id(a)
        none == [ans |-> a, dist_source_target_ids |-> EmptyDict, tn |-> tn,
                 log |-> <<>>, faulted |-> FALSE, looked_up |-> FALSE]
    IN  IF dist_id = "" THEN none
        ELSE
        LET rw == rewrite_reference_id(dist_id, src, tn, r)
            f1 == ~r.srcGet1 \/ ~r.tgtList
            found == [none EXCEPT !.dist_source_target_ids = rw.dist_source_target_ids,
                                  !.faulted = f1, !.looked_up = TRUE]
        IN  IF rw.target_dist_id # Null THEN found
            ELSE IF ~r.srcGet2 THEN [found EXCEPT !.faulted = TRUE]
            ELSE
            LET restrs == src.restrictions
                listed == restrs # <<>>
                all_restrictions == IF listed /\ r.restrList THEN tn.restr ELSE {}
                loop == RestrictionLoop(restrs, 1, all_restrictions, r,
                            [tn |-> tn, new_restr_ids |-> <<>>, log |-> <<>>,
                             faulted |-> f1 \/ (listed /\ ~r.restrList)])
                name == src.distName
                ok == DistPostOk(loop.tn, name, r.distPost)
                target_dist_id ==
                    IF ok THEN TgtDistId(name)
                    ELSE IF name \in loop.tn.dist /\ r.conflictCtx THEN TgtDistId(name)
                    ELSE Null
                tn2 == IF ok THEN [loop.tn EXCEPT !.dist = @ \cup {name}] ELSE loop.tn
            IN  [ans |-> IF target_dist_id # Null THEN [a EXCEPT !.dist_ref = target_dist_id] ELSE a,
                 dist_source_target_ids |->
                    IF target_dist_id # Null THEN (dist_id :> target_dist_id)
                    ELSE rw.dist_source_target_ids,
                 tn |-> tn2,
                 log |-> Append(loop.log, Post("distributor", ok, loop.new_restr_ids)),
                 faulted |-> loop.faulted \/ (name \notin loop.tn.dist /\ ~r.distPost),
                 looked_up |-> TRUE]

DistResponses ==
    [srcGet1 : BOOLEAN, tgtList : BOOLEAN, srcGet2 : BOOLEAN, restrList : BOOLEAN,
     restrPost : [1..MaxRestr -> BOOLEAN], distPost : BOOLEAN, conflictCtx : BOOLEAN]

\* The name the source tenant's geo-restriction of this id carries.
GeoNameOf(src, geo_id) == CHOOSE n \in Range(src.geo) : SrcGeoId(n) = geo_id

\* The POST of one geo-restriction: "will fail if one with same name already exists".
GeoPostOk(tn, name, answer) == name \notin tn.geo /\ answer

\* An element of content_restrictions.geo.restrictions: {"restriction_id": v},
\* or the bare string v.
GeoObject(v) == [shape |-> "object", value |-> v]
GeoString(v) == [shape |-> "string", value |-> v]

\* A variant of GeoLoop that looks the name up first and creates only when the
\* destination has no geo-restriction of that name.
RECURSIVE GeoLoopFindFirst(_, _, _, _, _)
GeoLoopFindFirst(restriction_ids, i, src, r, acc) ==
    IF i > Len(restriction_ids) \/ acc.crashed THEN acc
    ELSE IF ~r.srcGet[i] THEN [acc EXCEPT !.crashed = TRUE, !.faulted = TRUE]
    ELSE LET orig_restr_id == restriction_ids[i]
             name == GeoNameOf(src, orig_restr_id)
             found == r.lookup[i] /\ name \in acc.tn.geo
             ok == ~found /\ GeoPostOk(acc.tn, name, r.post[i])
             new_geo_id == IF found \/ ok THEN TgtGeoId(name) ELSE Null
             looked == Append(acc.log, Get("geo-restriction-by-name", r.lookup[i]))
         IN  GeoLoopFindFirst(restriction_ids, i + 1, src, r,
                [tn |-> IF ok THEN [acc.tn EXCEPT !.geo = @ \cup {name}] ELSE acc.tn,
                 new_geo_restrictions |-> Append(acc.new_geo_restrictions, GeoObject(new_geo_id)),
                 new_geo_restriction_ids |->
                    DictUpdate(acc.new_geo_restriction_ids, orig_restr_id :> new_geo_id),
                 log |-> IF found THEN looked
                         ELSE Append(looked, Post("geo-restriction", ok, <<name>>)),
                 faulted |-> acc.faulted \/ ~r.lookup[i] \/ (~found /\ ~ok),
                 crashed |-> FALSE])

\* The loop over restriction_ids (non-dry-run), from id i on.
\* acc = [tn, new_geo_restrictions, new_geo_restriction_ids, log, faulted, crashed].
\* A source GET that fails answers an error body with no "id": restr["id"]
\* raises KeyError outside the try, and the exception leaves the function.
RECURSIVE GeoLoop(_, _, _, _, _)
GeoLoop(restriction_ids, i, src, r, acc) ==
    IF i > Len(restriction_ids) \/ acc.crashed THEN acc
    ELSE IF ~r.srcGet[i] THEN [acc EXCEPT !.crashed = TRUE, !.faulted = TRUE]
    ELSE LET orig_restr_id == restriction_ids[i]
             name == GeoNameOf(src, orig_restr_id)
             ok == GeoPostOk(acc.tn, name, r.post[i])
             new_geo_id == IF ok THEN TgtGeoId(name)
                           ELSE IF r.lookup[i] /\ name \in acc.tn.geo THEN TgtGeoId(name)
                           ELSE Null
             posted == Append(acc.log, Post("geo-restriction", ok, <<name>>))
         IN  GeoLoop(restriction_ids, i + 1, src, r,
                [tn |-> IF ok THEN [acc.tn EXCEPT !.geo = @ \cup {name}] ELSE acc.tn,
                 new_geo_restrictions |-> Append(acc.new_geo_restrictions, GeoObject(new_geo_id)),
                 new_geo_restriction_ids |->
                    DictUpdate(acc.new_geo_restriction_ids, orig_restr_id :> new_geo_id),
                 log |-> IF ok THEN posted
                         ELSE Append(posted, Get("geo-restriction-by-name", r.lookup[i])),
                 faulted |-> acc.faulted \/ (name \notin acc.tn.geo /\ ~r.post[i])
                                         \/ (~ok /\ ~r.lookup[i]),
                 crashed |-> FALSE])

create_target_geographic_restrictions(a, src, tn, r, dry_run_msg, dry) ==
    LET restriction_ids == [i \in 1..Len(a.geo) |-> a.geo[i].value]
        none == [ans |-> a, geo_restrictions |-> EmptyDict, tn |-> tn, log |-> <<>>,
                 faulted |-> FALSE, crashed |-> FALSE]
    IN  IF a.geo = <<>> THEN none
        ELSE IF ~dry
        THEN LET loop == GeoLoop(restriction_ids, 1, src, r,
                            [tn |-> tn, new_geo_restrictions |-> <<>>,
                             new_geo_restriction_ids |-> EmptyDict, log |-> <<>>,
                             faulted |-> FALSE, crashed |-> FALSE])
             IN  [ans |-> IF loop.crashed THEN a
                          ELSE [a EXCEPT !.geo = loop.new_geo_restrictions],
                  geo_restrictions |-> IF loop.crashed THEN EmptyDict
                                       ELSE loop.new_geo_restriction_ids,
                  tn |-> loop.tn, log |-> loop.log, faulted |-> loop.faulted,
                  crashed |-> loop.crashed]
        ELSE [none EXCEPT !.ans = [a EXCEPT !.geo = <<GeoString(dry_run_msg)>>],
                          !.geo_restrictions = (restriction_ids[1] :> dry_run_msg)]

GeoResponses ==
    [srcGet : [1..MaxGeo -> BOOLEAN], post : [1..MaxGeo -> BOOLEAN],
     lookup : [1..MaxGeo -> BOOLEAN]]

\* ------------------------------------------------------------ the scripts
AnsKinds == {"story", "story_sandbox", "video", "video_sandbox",
             "gallery", "gallery_sandbox", "image", "image_sandbox"}
OtherKinds == {"author", "authors", "lightbox", "collection", "redirects"}
Kinds == AnsKinds \cup OtherKinds
StoryKinds == {"story", "story_sandbox"}
VideoKinds == {"video", "video_sandbox"}

\* self.dry_run_restriction_msg of each class.
DryRunMsg(k) ==
    IF k \in VideoKinds THEN "new distributors and geo restrictions not created during a dry run"
    ELSE IF k \in {"gallery", "gallery_sandbox"} THEN "new distributors are not created during a dry run"
    ELSE "new distributors not created during a dry run"

\* The key/value pair every report dict is headed with.
Header(k) == IF k \in {"story", "video", "gallery", "image"}
             THEN ("from_org" :> "to_org") ELSE ("production" :> "sandbox")

\* The handlers doit calls, in order.
DoitSeq(k) ==
    CASE k = "story" ->
            <<"fetch_source_ans", "transform_ans", "transform_distributor",
              "transform_photo_references", "other_supporting_references",
              "transform_circulation", "validate_transform", "post_transformed_ans",
              "document_redirects">>
      [] k = "story_sandbox" ->
            <<"fetch_source_ans", "transform_ans", "transform_distributor",
              "other_supporting_references", "validate_transform",
              "post_transformed_ans", "document_redirects">>
      [] k \in VideoKinds ->
            <<"fetch_source_ans", "transform_ans", "transform_circulation",
              "transform_promo_item", "transform_distributor",
              "transform_geographic_restriction", "other_supporting_references",
              "validate_transform", "post_transformed_ans">>
      [] k = "gallery" ->
            <<"fetch_source_ans", "transform_ans", "other_supporting_references",
              "transform_content_elements", "transform_promo_item",
              "transform_distributor", "transform_circulation", "validate_transform",
              "post_transformed_ans">>
      [] k = "gallery_sandbox" ->
            <<"fetch_source_ans", "transform_ans", "transform_content_elements",
              "transform_promo_item", "transform_distributor", "validate_transform",
              "post_transformed_ans">>
      [] k \in {"image", "image_sandbox"} ->
            <<"fetch_source_ans", "transform_ans", "other_supporting_references",
              "transform_distributor", "validate_transform", "post_transformed_ans">>
      [] k = "author" -> <<"doit">>
      [] k = "lightbox" ->
            <<"fetch_source_lightbox", "transform_lightbox", "transform_lightbox_photos",
              "post_transformed_lightbox">>
      [] k = "collection" ->
            <<"fetch_source_collection", "transform_collection",
              "post_transformed_collection">>
      [] k = "redirects" -> <<"doit">>
      [] k = "authors" -> <<"doit">>

Handler == IF pc \in 1..Len(DoitSeq(kind)) THEN DoitSeq(kind)[pc] ELSE "none"
At(k, h) == status = "running" /\ kind \in k /\ Handler = h

\* The handlers between fetch and validate: every one of them is a transform step.
TransformHandlers ==
    {"transform_ans", "transform_distributor", "transform_photo_references",
     "other_supporting_references", "transform_circulation", "transform_promo_item",
     "transform_content_elements", "transform_geographic_restriction"}

\* The document as the source tenant serves it.
SourceDocument(src) ==
    [loaded |-> TRUE,
     dist_ref |-> IF src.hasDist THEN SrcDistId ELSE Absent,
     geo |-> [i \in 1..Len(src.geo) |-> GeoObject(SrcGeoId(src.geo[i]))]]
NoDocument == [loaded |-> FALSE, dist_ref |-> Absent, geo |-> <<>>]
NoReferences == [distributor |-> EmptyDict, geo_restrictions |-> EmptyDict]
NoPrev == [ran |-> FALSE, id |-> Null, posts |-> 0, created |-> 0, faulted |-> FALSE]

NoBulk(t) == [searchFrom |-> Null, scrollId |-> Null, runcount |-> 0, test_run |-> t,
              queries |-> 0]

\* The first n restrictions of a distributor, the first n geo-restrictions of a video.
RestrNames(n) == [i \in 1..n |-> RestrName(i)]
GeoNames(n) == [i \in 1..n |-> GeoName(i)]

Sources ==
    {[distName |-> "AP", hasDist |-> FALSE, restrictions |-> <<>>, geo |-> GeoNames(g)] :
        g \in 0..MaxGeo}
    \cup
    {[distName |-> n, hasDist |-> TRUE, restrictions |-> RestrNames(k),
      geo |-> GeoNames(g)] :
        n \in DistNames, k \in 0..MaxRestr, g \in 0..MaxGeo}

\* What each kind of object can carry: only a video has geo-restrictions, only
\* ANS objects have a distributor.
\* A video that references geo-restrictions is taken with a distributor that
\* has no nested restrictions: the two resolvers do not read each other's entities.
SourceFits(k, src) ==
    /\ (k \notin VideoKinds => src.geo = <<>>)
    /\ (src.geo # <<>> /\ src.hasDist => src.restrictions = <<>> /\ src.distName = "AP")
    /\ (k \notin AnsKinds => ~src.hasDist)

Init ==
    /\ kind \in Kinds
    /\ dry_run \in BOOLEAN
    /\ source \in {src \in Sources : SourceFits(kind, src)}
    /\ tenant = [dist |-> {}, restr |-> {}, geo |-> {}]
    /\ ans = NoDocument
    /\ circulation = <<>>
    /\ references = NoReferences
    /\ validation = "None"
    /\ message = ""
    /\ pc = 1
    /\ status = "running"
    /\ log = <<>>
    /\ faulted = FALSE
    /\ prev = NoPrev
    /\ bulk \in {NoBulk(t) : t \in IF kind \in {"redirects", "authors"} THEN 0..MaxCap ELSE {0}}

\* ------------------------------------------------------------- handlers
Enter(h) == Append(log, StepEntry(h))

\* doit, right after fetch_source_ans: "if not self.ans: return self.message, None"
\* (story: "if not self.ans and not self.circulation").
FetchGate(k, a, circ) ==
    IF k \in StoryKinds THEN ~a.loaded /\ circ = <<>> ELSE ~a.loaded

AfterFetch(a, circ, msg, l) ==
    /\ ans' = a
    /\ circulation' = circ
    /\ message' = msg
    /\ log' = l
    /\ pc' = pc + 1
    /\ status' = IF FetchGate(kind, a, circ) THEN "aborted" ELSE "running"
    /\ UNCHANGED <<kind, dry_run, source, tenant, references, validation, faulted, prev, bulk>>

\* Arc2ArcStory.fetch_source_ans: three GETs, each made only if the one before
\* succeeded; self.ans is set after the second, self.circulation after the third.
story_fetch_source_ans ==
    /\ At(StoryKinds, "fetch_source_ans")
    /\ \E r1, r2, r3 \in BOOLEAN :
        LET l1 == Append(Enter("fetch_source_ans"), Get("find_revision", r1))
            l2 == IF r1 THEN Append(l1, Get("revision_ans", r2)) ELSE l1
            l3 == IF r1 /\ r2 THEN Append(l2, Get("circulation", r3)) ELSE l2
        IN  AfterFetch(IF r1 /\ r2 THEN SourceDocument(source) ELSE ans,
                       IF r1 /\ r2 /\ r3 THEN <<"section">> ELSE circulation,
                       IF r1 /\ r2 /\ r3 THEN message ELSE "FetchFailure",
                       l3)

\* A variant of VideoAlreadyExists that fetches the source whatever the destination holds.
VideoExistsIgnored(dry, exists) == FALSE

\* "if not self.dry_run and video_exists_res.ok and video_exists_res.json()"
VideoAlreadyExists(dry, exists) == ~dry /\ exists

\* Arc2ArcVideo.fetch_source_ans: the destination is asked first; a video found
\* there is not fetched, unless this is a dry run.
video_fetch_source_ans ==
    /\ At(VideoKinds, "fetch_source_ans")
    /\ \E exists \in BOOLEAN, res \in {"ok", "404", "500"} :
        LET l1 == Append(Enter("fetch_source_ans"), Get("target_exists", exists))
        IN  IF VideoAlreadyExists(dry_run, exists)
            THEN AfterFetch(ans, circulation, "AlreadyExists", l1)
            ELSE AfterFetch(IF res = "ok" THEN SourceDocument(source) ELSE ans,
                            circulation,
                            IF res = "ok" THEN message
                            ELSE IF res = "404" THEN "NotPublished" ELSE "FetchFailure",
                            Append(l1, Get("source", res = "ok")))

\* Arc2ArcGallery.fetch_source_ans (05): the destination is asked for the given
\* id, then for the regenerated id, then the source is fetched.
gallery_fetch_source_ans ==
    /\ At({"gallery"}, "fetch_source_ans")
    /\ \E exists1, exists2, ok \in BOOLEAN :
        LET l1 == Append(Enter("fetch_source_ans"), Get("target_exists", exists1))
            l2 == Append(l1, Get("target_exists_regenerated", exists2))
        IN  IF exists1 THEN AfterFetch(ans, circulation, "AlreadyExists", l1)
            ELSE IF exists2 THEN AfterFetch(ans, circulation, "AlreadyExists", l2)
            ELSE AfterFetch(IF ok THEN SourceDocument(source) ELSE ans, circulation,
                            IF ok THEN message ELSE "FetchFailure",
                            Append(l2, Get("source", ok)))

\* fetch_source_ans of the image scripts and of the gallery-to-sandbox script: one GET.
image_fetch_source_ans ==
    /\ At({"image", "image_sandbox", "gallery_sandbox"}, "fetch_source_ans")
    /\ \E ok \in BOOLEAN :
        AfterFetch(IF ok THEN SourceDocument(source) ELSE ans, circulation,
                   IF ok THEN message ELSE "FetchFailure",
                   Append(Enter("fetch_source_ans"), Get("source", ok)))

\* The transform handlers that touch neither the shared-entity references nor
\* any collaborator that creates something.
PlainTransforms ==
    {"transform_ans", "transform_photo_references", "other_supporting_references",
     "transform_promo_item", "transform_content_elements"}

transform_step ==
    /\ status = "running"
    /\ kind \in AnsKinds
    /\ Handler \in PlainTransforms
    /\ log' = Enter(Handler)
    /\ pc' = pc + 1
    /\ UNCHANGED <<kind, dry_run, source, tenant, ans, circulation, references,
                   validation, message, status, faulted, prev, bulk>>

\* transform_circulation.  Story: source_circulation[0] raises IndexError when
\* self.circulation is empty, and the exception leaves doit.
transform_circulation ==
    /\ At({"story", "video", "video_sandbox", "gallery"}, "transform_circulation")
    /\ log' = Enter("transform_circulation")
    /\ pc' = pc + 1
    /\ status' = IF kind = "story" /\ circulation = <<>> THEN "crashed" ELSE "running"
    /\ UNCHANGED <<kind, dry_run, source, tenant, ans, circulation, references,
                   validation, message, faulted, prev, bulk>>

\* transform_distributor, the same in every ANS script.  references_distributor
\* is the dict the resolver returned: the header is added to that same object.
TransformDistributor(k, a, refs, dry, src, tn, r) ==
    LET res == create_target_distributor_restrictions(a, src, tn, r)
        a1 == IF dry THEN a ELSE res.ans
        references_distributor ==
            IF res.dist_source_target_ids # EmptyDict
            THEN DictUpdate(res.dist_source_target_ids, Header(k))
            ELSE res.dist_source_target_ids
        refs1 == IF dry THEN refs ELSE [refs EXCEPT !.distributor = references_distributor]
        orig_dist_id == a1.dist_ref
    IN  [ans |-> IF ~Truthy(a1.dist_ref) THEN a1
                 ELSE IF dry THEN [a1 EXCEPT !.dist_ref = DryRunMsg(k)]
                 ELSE [a1 EXCEPT !.dist_ref = DictGet(references_distributor, orig_dist_id, Null)],
         references |-> IF Truthy(a1.dist_ref) /\ dry
                        THEN [refs1 EXCEPT !.distributor =
                                DictUpdate(Header(k), orig_dist_id :> DryRunMsg(k))]
                        ELSE refs1,
         tn |-> IF dry THEN tn ELSE res.tn,
         log |-> IF dry THEN <<>> ELSE res.log,
         faulted |-> ~dry /\ res.faulted]

transform_distributor ==
    /\ At(AnsKinds, "transform_distributor")
    /\ \E r \in DistResponses :
        LET t == TransformDistributor(kind, ans, references, dry_run, source, tenant, r)
        IN  /\ ans' = t.ans
            /\ references' = t.references
            /\ tenant' = t.tn
            /\ log' = Enter("transform_distributor") \o t.log
            /\ faulted' = (faulted \/ t.faulted)
    /\ pc' = pc + 1
    /\ UNCHANGED <<kind, dry_run, source, circulation, validation, message, status, prev, bulk>>

\* transform_geographic_restriction of the two video scripts.
TransformGeographicRestriction(k, a, refs, dry, src, tn, r) ==
    LET res == create_target_geographic_restrictions(a, src, tn, r, DryRunMsg(k), dry)
    IN  [ans |-> res.ans,
         references |-> IF res.geo_restrictions # EmptyDict /\ ~res.crashed
                        THEN [refs EXCEPT !.geo_restrictions =
                                DictUpdate(res.geo_restrictions, "from_org" :> "to_org")]
                        ELSE refs,
         tn |-> res.tn, log |-> res.log, faulted |-> res.faulted, crashed |-> res.crashed]

transform_geographic_restriction ==
    /\ At(VideoKinds, "transform_geographic_restriction")
    /\ \E r \in GeoResponses :
        LET t == TransformGeographicRestriction(kind, ans, references, dry_run, source, tenant, r)
        IN  /\ ans' = t.ans
            /\ references' = t.references
            /\ tenant' = t.tn
            /\ log' = Enter("transform_geographic_restriction") \o t.log
            /\ faulted' = (faulted \/ t.faulted)
            /\ status' = IF t.crashed THEN "crashed" ELSE "running"
    /\ pc' = pc + 1
    /\ UNCHANGED <<kind, dry_run, source, circulation, validation, message, prev, bulk>>

\* The scripts whose validate_transform looks for the four messages that follow
\* a first-time distributor creation (03, 04 and 08 do not).
FirstTimeDetecting == {"story", "story_sandbox", "gallery", "gallery_sandbox", "image"}

\* The tenant whose validation endpoint and credential the script uses.
ValidationOrg(k) == IF k = "video" THEN "from_org" ELSE "to_org"
ValidationCredential(k) ==
    IF k = "video" THEN "arc_auth_header_source" ELSE "arc_auth_header_target"

\* The answers of the validation service: success, status 400 with exactly the
\* four messages, status 400 with other messages, another failure status.
ValidationAnswers == {"ok", "400_four_messages", "400_other", "500"}

ValidationMessage(k, answer, msg) ==
    IF answer = "ok" THEN msg
    ELSE IF answer = "400_four_messages" /\ k \in FirstTimeDetecting
    THEN "MakingNewDistributorFirstTimeException"
    ELSE "ValidationFailure"

\* validate_transform, and doit's branch on self.validation after it:
\* "if not self.validation: return self.message, None / elif not self.dry_run: post".
\* The video scripts call post_transformed_ans in either mode.
validate_transform ==
    /\ At(AnsKinds, "validate_transform")
    /\ \E answer \in ValidationAnswers :
        /\ validation' = IF answer = "ok" THEN "True" ELSE "False"
        /\ message' = ValidationMessage(kind, answer, message)
        /\ log' = Append(Enter("validate_transform"),
                         Post("validate", answer = "ok",
                              <<ValidationOrg(kind), answer, ValidationCredential(kind)>>))
        /\ status' = IF answer # "ok" THEN "aborted"
                     ELSE IF dry_run /\ kind \notin VideoKinds THEN "done"
                     ELSE "running"
    /\ pc' = pc + 1
    /\ UNCHANGED <<kind, dry_run, source, tenant, ans, circulation, references, faulted, prev, bulk>>

\* The scripts whose post_transformed_ans records the outcome in self.message.
PostReporting == {"story", "story_sandbox", "gallery", "gallery_sandbox", "image"}

\* A variant of IngestIssued that forgets the video scripts' dry-run test.
IngestIssuedInDryRun(k, dry) == TRUE

\* Whether post_transformed_ans, once called, issues the ingestion POST: the
\* video scripts are the ones that call it in a dry run, and test dry_run inside.
IngestIssued(k, dry) == ~(k \in VideoKinds /\ dry)

\* post_transformed_ans, and doit after it (story: redirects only if no message).
post_transformed_ans ==
    /\ At(AnsKinds, "post_transformed_ans")
    /\ \E ok \in BOOLEAN :
        LET issued == IngestIssued(kind, dry_run)
            msg == IF kind \notin PostReporting \/ ~issued THEN message
                   ELSE IF ok THEN "None" ELSE "ArcObjectToMigrationCenterFailed"
        IN  /\ log' = IF issued
                      THEN Append(Enter("post_transformed_ans"), Post("ingest", ok, <<>>))
                      ELSE Enter("post_transformed_ans")
            /\ message' = msg
            /\ status' = IF kind \in StoryKinds /\ msg \in {"None", ""} THEN "running"
                         ELSE "done"
    /\ pc' = pc + 1
    /\ UNCHANGED <<kind, dry_run, source, tenant, ans, circulation, references,
                   validation, faulted, prev, bulk>>

\* The answers to one redirect-creation POST: created, refused with a JSON
\* error body (the redirect exists), and a failure without a JSON body (a
\* gateway error, or requests.post itself raising).
RedirectAnswers == {"created", "refused", "no_json"}

\* "except Exception as e: print('redirect', story_res7.json().get(...))": the
\* handler reads the response as JSON, so a failure without a JSON body raises
\* out of the loop.
RedirectRaises(answer) == answer = "no_json"

\* "for red_url in redirects", from redirect i on.
RECURSIVE RedirectPosts(_, _, _)
RedirectPosts(n, i, answers) ==
    IF i > n THEN <<>>
    ELSE <<Post("redirect", answers[i] = "created", <<ToString(i)>>)>>
         \o (IF RedirectRaises(answers[i]) THEN <<>> ELSE RedirectPosts(n, i + 1, answers))

\* Whether an exception left the loop over the first n redirects.
RedirectsCrashed(n, answers) == \E i \in 1..n : RedirectRaises(answers[i])

\* document_redirects of the story scripts: the source answers with the story's
\* n redirects, and one POST per redirect is made unless this is a dry run.
document_redirects ==
    /\ At(StoryKinds, "document_redirects")
    /\ \E listed \in BOOLEAN, n \in 0..MaxRedirects,
          answers \in [1..MaxRedirects -> RedirectAnswers] :
        /\ log' = Append(Enter("document_redirects"),
                         Entry("GET", "redirects", listed,
                               IF listed THEN <<ToString(n)>> ELSE <<>>))
                  \o (IF listed /\ ~dry_run THEN RedirectPosts(n, 1, answers) ELSE <<>>)
        /\ status' = IF listed /\ ~dry_run /\ RedirectsCrashed(n, answers)
                     THEN "crashed" ELSE "done"
    /\ pc' = pc + 1
    /\ UNCHANGED <<kind, dry_run, source, tenant, ans, circulation, references,
                   validation, message, faulted, prev, bulk>>

\* Arc2ArcAuthor.doit: the author is copied unless the destination already has it.
author_doit ==
    /\ At({"author"}, "doit")
    /\ \E exists, fetched, ok \in BOOLEAN :
        LET l1 == Append(Enter("doit"), Get("target_exists", exists))
            l2 == Append(l1, Get("source", fetched))
        IN  IF exists
            THEN /\ log' = l1 /\ message' = "AlreadyExists" /\ status' = "aborted"
            ELSE /\ log' = IF ~dry_run /\ fetched THEN Append(l2, Post("author", ok, <<>>)) ELSE l2
                 /\ message' = "AuthorResponse"
                 /\ status' = "done"
    /\ pc' = pc + 1
    /\ UNCHANGED <<kind, dry_run, source, tenant, ans, circulation, references,
                   validation, faulted, prev, bulk>>

\* The outcomes of one Arc2ArcAuthor.doit of the bulk author driver.
AuthorAnswers == {"exists", "fetch_failed", "created", "refused"}

\* The calls of one Arc2ArcAuthor.doit (script 10), as in author_doit.
AuthorCalls(dry, answer) ==
    <<Get("target_exists", answer = "exists")>>
    \o (IF answer = "exists" THEN <<>>
        ELSE <<Get("source", answer # "fetch_failed")>>
             \o (IF ~dry /\ answer # "fetch_failed"
                 THEN <<Post("author", answer = "created", <<>>)>> ELSE <<>>))

\* "for index, a in enumerate(authors)" from index on (counted from 0), left by
\* "if self.test_run and int(self.test_run) and index > int(self.test_run): break".
RECURSIVE AuthorLoop(_, _, _, _, _)
AuthorLoop(n, index, test_run, dry, answers) ==
    IF index >= n \/ (test_run # 0 /\ index > test_run) THEN <<>>
    ELSE AuthorCalls(dry, answers[index + 1])
         \o AuthorLoop(n, index + 1, test_run, dry, answers)

\* ProcessArc2ArcAuthors.doit: the list of all authors of the source tenant,
\* then one Arc2ArcAuthor.doit per author until the cap stops the loop.
authors_doit ==
    /\ At({"authors"}, "doit")
    /\ \E listed \in BOOLEAN, n \in 0..MaxAuthors, answers \in [1..MaxAuthors -> AuthorAnswers] :
        /\ log' = Append(Enter("doit"), Get("all_authors", listed))
                  \o (IF listed THEN AuthorLoop(n, 0, bulk.test_run, dry_run, answers) ELSE <<>>)
        /\ status' = IF listed THEN "done" ELSE "crashed"
    /\ pc' = pc + 1
    /\ UNCHANGED <<kind, dry_run, source, tenant, ans, circulation, references,
                   validation, message, faulted, prev, bulk>>

\* fetch_source_lightbox / fetch_source_collection, and doit's
\* "if self.message: return self.message".
fetch_source_object ==
    /\ \/ At({"lightbox"}, "fetch_source_lightbox")
       \/ At({"collection"}, "fetch_source_collection")
    /\ \E ok \in BOOLEAN :
        /\ log' = Append(Enter(Handler), Get("source", ok))
        /\ message' = IF ok THEN message ELSE "FetchFailure"
        /\ status' = IF ok THEN "running" ELSE "aborted"
    /\ pc' = pc + 1
    /\ UNCHANGED <<kind, dry_run, source, tenant, ans, circulation, references,
                   validation, faulted, prev, bulk>>

transform_lightbox ==
    /\ At({"lightbox"}, "transform_lightbox")
    /\ log' = Enter("transform_lightbox")
    /\ pc' = pc + 1
    /\ UNCHANGED <<kind, dry_run, source, tenant, ans, circulation, references,
                   validation, message, status, faulted, prev, bulk>>

\* transform_lightbox_photos / transform_collection: a message when the object
\* references nothing; then doit returns it, and returns the report in a dry run.
transform_object ==
    /\ \/ At({"lightbox"}, "transform_lightbox_photos")
       \/ At({"collection"}, "transform_collection")
    /\ \E has_content \in BOOLEAN :
        /\ message' = IF has_content THEN message ELSE "NothingToMigrate"
        /\ status' = IF ~has_content THEN "aborted"
                     ELSE IF dry_run THEN "done" ELSE "running"
    /\ log' = Enter(Handler)
    /\ pc' = pc + 1
    /\ UNCHANGED <<kind, dry_run, source, tenant, ans, circulation, references,
                   validation, faulted, prev, bulk>>

\* post_transformed_lightbox: the lightbox, then its photos if the first POST succeeded.
post_transformed_lightbox ==
    /\ At({"lightbox"}, "post_transformed_lightbox")
    /\ \E ok, ok2 \in BOOLEAN :
        LET l1 == Append(Enter("post_transformed_lightbox"), Post("lightbox", ok, <<>>))
        IN  /\ log' = IF ok THEN Append(l1, Post("lightbox_photos", ok2, <<>>)) ELSE l1
            /\ message' = IF ok THEN message ELSE "PostFailure"
    /\ pc' = pc + 1
    /\ status' = "done"
    /\ UNCHANGED <<kind, dry_run, source, tenant, ans, circulation, references,
                   validation, faulted, prev, bulk>>

post_transformed_collection ==
    /\ At({"collection"}, "post_transformed_collection")
    /\ \E ok \in BOOLEAN :
        /\ log' = Append(Enter("post_transformed_collection"), Post("collection", ok, <<>>))
        /\ message' = IF ok THEN message ELSE "PostFailure"
    /\ pc' = pc + 1
    /\ status' = "done"
    /\ UNCHANGED <<kind, dry_run, source, tenant, ans, circulation, references,
                   validation, faulted, prev, bulk>>

\* The redirects of one page the loop of Arc2ArcRedirects.doit goes through:
\* runcount is raised before the cap is tested, so at least one is processed.
Processed(n, runcount, test_run) ==
    IF n = 0 THEN 0
    ELSE IF test_run > 0 /\ test_run - runcount <= n
    THEN (IF test_run - runcount < 1 THEN 1 ELSE test_run - runcount)
    ELSE n

\* The POSTs of one page: one per story redirect among those processed.  The
\* answer to such a POST is only printed, so it is not told apart here.
RECURSIVE BulkPosts(_)
BulkPosts(n) ==
    IF n = 0 THEN <<>> ELSE <<Post("redirect", TRUE, <<>>)>> \o BulkPosts(n - 1)

Min(a, b) == IF a < b THEN a ELSE b

\* One call of Arc2ArcRedirects.doit: query_redirects, the loop over the page
\* (n redirects, `stories` of the processed ones being story redirects), and the
\* decision to call doit again.
redirects_doit ==
    /\ At({"redirects"}, "doit")
    /\ \E answered \in BOOLEAN,
          n \in (IF bulk.queries < MaxPages THEN 0..MaxPage ELSE {0}),
          next \in {"none", "int", "scroll"},
          stories \in 0..MaxPage :
        LET content == answered /\ n > 0
            token == next \o ToString(bulk.queries + 1)
            from1 == IF ~content THEN Null
                     ELSE IF next = "int" THEN token ELSE bulk.searchFrom
            scroll1 == IF ~content THEN Null
                       ELSE IF next = "scroll" THEN token ELSE bulk.scrollId
            done == Processed(IF content THEN n ELSE 0, bulk.runcount, bulk.test_run)
            runcount1 == bulk.runcount + done
            capped == done > 0 /\ bulk.test_run > 0 /\ runcount1 >= bulk.test_run
            from2 == IF capped THEN Null ELSE from1
            scroll2 == IF capped THEN Null ELSE scroll1
        IN  /\ log' = Append(Enter("doit"),
                         Entry("GET", "scan", answered,
                               <<bulk.searchFrom, bulk.scrollId,
                                 IF answered /\ next # "none" THEN token ELSE Null,
                                 IF content THEN "results" ELSE "empty">>))
                      \o (IF dry_run THEN <<>> ELSE BulkPosts(Min(stories, done)))
            /\ bulk' = [bulk EXCEPT !.searchFrom = from2, !.scrollId = scroll2,
                                    !.runcount = runcount1, !.queries = @ + 1]
            /\ status' = IF content /\ (from2 # Null \/ scroll2 # Null) THEN "running" ELSE "done"
    /\ UNCHANGED <<kind, dry_run, source, tenant, ans, circulation, references,
                   validation, message, pc, faulted, prev>>

\* The operator runs the same command once more, against the destination tenant
\* as the earlier runs left it.
ResolverRan == \E i \in 1..Len(log) : log[i] = StepEntry("transform_distributor")
RunSummary ==
    [ran |-> TRUE,
     id |-> DictGet(references.distributor, SrcDistId, Null),
     posts |-> Cardinality(Posts(log, "distributor")),
     created |-> Cardinality(OkPosts(log, "distributor")),
     faulted |-> faulted]

NewRun ==
    /\ status # "running"
    /\ prev' = IF ResolverRan /\ ~dry_run /\ source.hasDist THEN RunSummary ELSE prev
    /\ ans' = NoDocument
    /\ circulation' = <<>>
    /\ references' = NoReferences
    /\ validation' = "None"
    /\ message' = ""
    /\ pc' = 1
    /\ status' = "running"
    /\ log' = <<>>
    /\ faulted' = FALSE
    /\ bulk' = NoBulk(bulk.test_run)
    /\ UNCHANGED <<kind, dry_run, source, tenant>>

Next ==
    \/ story_fetch_source_ans
    \/ video_fetch_source_ans
    \/ gallery_fetch_source_ans
    \/ image_fetch_source_ans
    \/ transform_step
    \/ transform_circulation
    \/ transform_distributor
    \/ transform_geographic_restriction
    \/ validate_transform
    \/ post_transformed_ans
    \/ document_redirects
    \/ author_doit
    \/ authors_doit
    \/ fetch_source_object
    \/ transform_lightbox
    \/ transform_object
    \/ post_transformed_lightbox
    \/ post_transformed_collection
    \/ redirects_doit
    \/ NewRun

Spec == Init /\ [][Next]_vars

\* ------------------------------------------------------------- properties
\* Positions of the log at which handler h was entered.
Steps(l, h) == {i \in 1..Len(l) : l[i] = StepEntry(h)}
Entered(h) == Steps(log, h) # {}

\* The GETs fetch_source_ans makes to the source tenant.
SourceGets == {"find_revision", "revision_ans", "circulation", "source"}
FetchFailed(l) ==
    \E i \in 1..Len(l) : l[i].what = "GET" /\ l[i].name \in SourceGets /\ ~l[i].ok
TransformSteps(l) ==
    {i \in 1..Len(l) : l[i].what = "step" /\ l[i].name \in TransformHandlers}
ValidationCalls(l) == Posts(l, "validate")

\* The endpoints that create something in the destination tenant.
CreationEndpoints ==
    {"distributor", "restriction", "geo-restriction", "ingest", "redirect",
     "author", "lightbox", "lightbox_photos", "collection"}
CreationPosts(l) ==
    {i \in 1..Len(l) : l[i].what = "POST" /\ l[i].name \in CreationEndpoints}

\* C1: in every ANS pipeline run the ingestion POST follows a successful
\* validation call of the same run, the validation call follows every transform
\* step, transform steps run only after a successful fetch, and a run whose
\* validation failed issues no ingestion POST and no redirect-creation call.
C1_PipelineOrder ==
    kind \in AnsKinds =>
        /\ \A i \in Posts(log, "ingest") : \E j \in OkPosts(log, "validate") : j < i
        /\ \A i \in ValidationCalls(log) : \A j \in TransformSteps(log) : j < i
        /\ TransformSteps(log) # {} => ~FetchFailed(log)
        /\ validation = "False" =>
                Posts(log, "ingest") = {} /\ Posts(log, "redirect") = {}

\* C2: in a non-dry-run migration whose distributor was not found by name and
\* whose creation call succeeded with id D, after transform_distributor the
\* document's distributor.reference_id is D and the mapping maps the source
\* distributor id to D.
C2_CreatedIdWritten ==
    kind \in AnsKinds /\ ~dry_run /\ Entered("transform_distributor")
                      /\ ~FetchFailed(log) /\ OkPosts(log, "distributor") # {} =>
        /\ ans.dist_ref = TgtDistId(source.distName)
        /\ DictGet(references.distributor, SrcDistId, Null) = TgtDistId(source.distName)

\* This run resolved the document's distributor (not a dry run), as did a run before it.
ResolvedTwice ==
    /\ prev.ran /\ ~dry_run /\ source.hasDist
    /\ Entered("transform_distributor") /\ ~FetchFailed(log)

\* C3: resolving the same distributor twice against the tenant the first run
\* left behind makes at most one successful creation in total, the second run
\* issues no distributor-creation POST, and it yields the id the first yielded.
\* Stated for runs in which no settings-service call failed on its own.
C3_ResolutionIdempotent ==
    ResolvedTwice /\ ~prev.faulted /\ ~faulted =>
        /\ prev.created + Cardinality(OkPosts(log, "distributor")) <= 1
        /\ Posts(log, "distributor") = {}
        /\ DictGet(references.distributor, SrcDistId, Null) = prev.id

\* C4: in a dry run no pipeline issues a POST to the distributor, restriction,
\* geo-restriction, ingestion, redirect, author, lightbox or collection
\* creation endpoints, whatever the collaborators answer.
C4_DryRunCreatesNothing ==
    dry_run => CreationPosts(log) = {}

\* A dry run of a video that references a distributor and geo-restrictions went
\* through both resolvers, validated, and called post_transformed_ans.
C4_Witness ==
    /\ dry_run /\ kind \in VideoKinds
    /\ source.hasDist /\ source.geo # <<>>
    /\ Entered("transform_distributor") /\ Entered("transform_geographic_restriction")
    /\ Entered("post_transformed_ans")
    /\ status = "done"

\* C5: in the story pipeline, when any of the three fetch calls fails the run
\* ends aborted with the captured diagnostic, and no transform step, creation
\* call, validation call or ingestion POST is made on the partly fetched data.
C5_FetchFailureAborts ==
    kind = "story" /\ FetchFailed(log) =>
        /\ status = "aborted"
        /\ message = "FetchFailure"
        /\ TransformSteps(log) = {}
        /\ CreationPosts(log) = {}
        /\ ValidationCalls(log) = {}

\* The validation call of this run was answered 400 with exactly the four messages.
FourMessagesAnswered ==
    \E i \in ValidationCalls(log) : log[i].body[2] = "400_four_messages"

\* C6: in the story, video, gallery and image pipelines a validation answer of
\* status 400 with exactly the four messages makes the run's diagnostic the
\* first-time-distributor message, never the generic one, and the run aborts
\* before the POST.
C6_FirstTimeDistributorMessage ==
    kind \in {"story", "video", "gallery", "image"} /\ FourMessagesAnswered =>
        /\ message = "MakingNewDistributorFirstTimeException"
        /\ status = "aborted"
        /\ Posts(log, "ingest") = {}

\* The handler entered last.
LastStep ==
    IF \E i \in 1..Len(log) : log[i].what = "step"
    THEN log[CHOOSE i \in 1..Len(log) :
                /\ log[i].what = "step"
                /\ \A j \in (i + 1)..Len(log) : log[j].what # "step"].name
    ELSE "none"

\* An exception left one of the two resolvers.
ResolverRaised ==
    status = "crashed" /\ LastStep \in {"transform_distributor", "transform_geographic_restriction"}

\* C7: whatever the settings services answer, the two resolvers (non-dry-run)
\* return without an exception escaping, a reference neither found nor created
\* is null in the document, and the pipeline goes on towards validation.
C7_ResolversNeverRaise ==
    kind \in AnsKinds /\ ~dry_run =>
        /\ ~ResolverRaised
        /\ Entered("transform_distributor") /\ source.hasDist
              /\ DictGet(references.distributor, SrcDistId, Null) = Null
              => ans.dist_ref = Null
        /\ Entered("transform_geographic_restriction") =>
              \A j \in 1..Len(ans.geo) :
                 ans.geo[j].value = Null
                    <=> DictGet(references.geo_restrictions, SrcGeoId(source.geo[j]), Null) = Null

\* The geo-restriction resolver of this (non-dry) run went through every id.
GeoResolved ==
    /\ kind \in VideoKinds /\ ~dry_run /\ source.geo # <<>>
    /\ Entered("transform_geographic_restriction") /\ status # "crashed"

GeoPostsFor(name) ==
    {i \in Posts(log, "geo-restriction") : log[i].body = <<name>>}

\* The destination had a geo-restriction of this name before this run's
\* resolver reached it: the name is there and this run did not create it.
GeoExisted(name) ==
    name \in tenant.geo /\ \A i \in GeoPostsFor(name) : ~log[i].ok

DistributorCreationAttempted ==
    /\ kind \in AnsKinds /\ ~dry_run /\ Entered("transform_distributor")
    /\ ~FetchFailed(log)
    /\ Posts(log, "restriction") \cup Posts(log, "distributor") # {}

RestrPostsFor(name) ==
    {i \in Posts(log, "restriction") : log[i].body = <<name>>}
RestrCreated(name) == \E i \in RestrPostsFor(name) : log[i].ok

\* The destination had a restriction of this name before this run posted it.
RestrExisted(name) == name \in tenant.restr /\ ~RestrCreated(name)

\* C9: when a missing distributor is created, every nested restriction that was
\* created contributes its new id, one whose creation failed contributes the id
\* of the same-named restriction the destination already has, one with neither
\* is omitted, and the distributor POST is issued exactly once with exactly
\* those ids.  Stated for runs in which no settings-service call failed on its own.
C9_NestedRestrictions ==
    DistributorCreationAttempted /\ ~faulted =>
        /\ Cardinality(Posts(log, "distributor")) = 1
        /\ \A i \in Posts(log, "distributor") :
              Range(log[i].body) =
                 {TgtRestrId(n) : n \in {m \in Range(source.restrictions) :
                                            RestrCreated(m) \/ RestrExisted(m)}}

\* C10: in a dry run, once the resolvers have run, the document holds the
\* dry-run sentinel in place of the distributor reference and of every
\* geo-restriction id, and the report maps each of those source ids to it.
C10_DryRunSentinel ==
    dry_run /\ kind \in AnsKinds =>
        /\ Entered("transform_distributor") /\ source.hasDist =>
              /\ ans.dist_ref = DryRunMsg(kind)
              /\ DictGet(references.distributor, SrcDistId, Null) = DryRunMsg(kind)
        /\ Entered("transform_geographic_restriction") =>
              /\ Len(ans.geo) = Len(source.geo)
              /\ \A j \in 1..Len(source.geo) :
                    /\ ans.geo[j].value = DryRunMsg(kind)
                    /\ DictGet(references.geo_restrictions, SrcGeoId(source.geo[j]), Null)
                          = DryRunMsg(kind)

\* The destination answered that it holds the object (under the given id or,
\* for a gallery, under the regenerated id).
FoundInDestination ==
    \E i \in 1..Len(log) :
        /\ log[i].what = "GET" /\ log[i].ok
        /\ log[i].name \in {"target_exists", "target_exists_regenerated"}

SourceFetched == \E i \in 1..Len(log) : log[i].what = "GET" /\ log[i].name = "source"

\* C19: in a non-dry-run video or gallery migration, when the destination
\* already holds the object the run aborts with the already-exists diagnostic
\* and makes no source fetch, no shared-entity creation, no validation call and
\* no ingestion POST.
C19_AlreadyExistsAborts ==
    kind \in {"video", "gallery"} /\ ~dry_run /\ FoundInDestination =>
        /\ status = "aborted"
        /\ message = "AlreadyExists"
        /\ ~SourceFetched
        /\ CreationPosts(log) = {}
        /\ ValidationCalls(log) = {}

\* A non-dry video run, or a non-dry gallery run (regenerated id) met the
\* object in the destination.
C19_Witness ==
    /\ ~dry_run /\ FoundInDestination /\ status = "aborted"
    /\ \/ kind = "video"
       \/ kind = "gallery" /\ \E i \in 1..Len(log) :
                                 log[i] = Get("target_exists_regenerated", TRUE)

\* C20: a dry run of the video or gallery pipeline whose source fetch does not
\* fail goes through fetch, transform and validation and returns the would-be
\* document and report, also when the destination already holds the object.
C20_DryRunStillRuns ==
    kind \in {"video", "gallery"} /\ dry_run /\ status # "running" /\ ~FetchFailed(log) =>
        /\ SourceFetched /\ ans.loaded
        /\ TransformSteps(log) # {}
        /\ ValidationCalls(log) # {}
        /\ validation = "True" => status = "done"

\* ===================================================== document transforms
\* The second specification, DocSpec, runs the transforms that doit calls
\* between fetch and validate on documents drawn from a bounded set.  It uses
\* the same variables: ans is the document, circulation the story's circulation
\* records, references the report, prev the input as it was fetched.

MaxElems == 2      \* content_elements of a story document
MaxSections == 2   \* sections of one circulation record / of a taxonomy
MaxRecords == 2    \* circulation records of a story
MaxPhotos == 2     \* images of a gallery or a lightbox

FromOrg == "from_org"
ToOrg == "to_org"
TargetWebsite == "W"

\* arc_id.generate_arc_id: a pure, injective function of the source id and the
\* destination tenant; ids it makes are no source ids.
generate_arc_id(old_id, org) == old_id \o "@" \o org

\* An ANS element: a reference carries "referent"; an inline element does not.
NoReferent == [id |-> Absent, type |-> Absent]
Reference(id, type) == [_id |-> id, type |-> "reference", referent |-> [id |-> id, type |-> type]]
Inline(id, type) == [_id |-> id, type |-> type, referent |-> NoReferent]
NoElement == Inline(Absent, Absent)
HasReferent(e) == e.referent # NoReferent

\* "<list>[?referent && referent.type == `t`] | [*].referent.id" and "..._id"
ReferentIds(elems, t) ==
    {elems[i].referent.id : i \in {j \in 1..Len(elems) :
                                    HasReferent(elems[j]) /\ elems[j].referent.type = t}}
ElementIds(elems, t) ==
    {elems[i]._id : i \in {j \in 1..Len(elems) :
                              HasReferent(elems[j]) /\ elems[j].referent.type = t}}
\* "(promo_items.<key>.*)[?type==`t`].id": the referent is the only value of
\* the promo item that is an object with a type.
PromoIds(item, t) ==
    IF item # NoElement /\ HasReferent(item) /\ item.referent.type = t
    THEN {item.referent.id} ELSE {}

\* references_images and references_galleries: what the scan of the story finds.
ScanImages(doc) ==
    ReferentIds(doc.content_elements, "image") \cup PromoIds(doc.basic, "image")
        \cup ReferentIds(doc.related_content, "image")
ScanGalleries(doc) ==
    ElementIds(doc.content_elements, "gallery") \cup PromoIds(doc.lead_art, "gallery")
        \cup ElementIds(doc.related_content, "gallery")

\* {id: generate_arc_id(id, to_org)} for the ids of a set.
NewIds(ids) == [id \in ids |-> generate_arc_id(id, ToOrg)]

\* this_ce["_id"] = new; this_ce["referent"]["id"] = new.  The second
\* assignment raises KeyError when the element has no "referent".
RewriteElement(e, new) ==
    IF HasReferent(e)
    THEN [elem |-> [e EXCEPT !._id = new, !.referent.id = new], crashed |-> FALSE]
    ELSE [elem |-> [e EXCEPT !._id = new], crashed |-> TRUE]

\* for this_ce in jmespath.search("<list>[?_id==`old`]"): from element i on.
RECURSIVE RewriteList(_, _, _, _)
RewriteList(elems, i, old, new) ==
    IF i > Len(elems) THEN [elems |-> elems, crashed |-> FALSE]
    ELSE IF elems[i]._id # old THEN RewriteList(elems, i + 1, old, new)
    ELSE LET r == RewriteElement(elems[i], new)
             done == [elems EXCEPT ![i] = r.elem]
         IN  IF r.crashed THEN [elems |-> done, crashed |-> TRUE]
             ELSE RewriteList(done, i + 1, old, new)

\* One turn of "for newid in combined_newids" visits content_elements, then
\* related_content.basic, promo_items.basic, promo_items.lead_art.  r is the
\* document so far and whether an exception has ended the turn.
RewriteContentElements(r, old, new) ==
    LET ce == RewriteList(r.doc.content_elements, 1, old, new)
    IN  [doc |-> [r.doc EXCEPT !.content_elements = ce.elems], crashed |-> ce.crashed]
RewriteRelatedContent(r, old, new) ==
    IF r.crashed THEN r
    ELSE LET rc == RewriteList(r.doc.related_content, 1, old, new)
         IN  [doc |-> [r.doc EXCEPT !.related_content = rc.elems], crashed |-> rc.crashed]
RewritePromoBasic(r, old, new) ==
    IF r.crashed \/ r.doc.basic._id # old THEN r
    ELSE LET pb == RewriteElement(r.doc.basic, new)
         IN  [doc |-> [r.doc EXCEPT !.basic = pb.elem], crashed |-> pb.crashed]
RewriteLeadArt(r, old, new) ==
    IF r.crashed \/ r.doc.lead_art._id # old THEN r
    ELSE LET la == RewriteElement(r.doc.lead_art, new)
         IN  [doc |-> [r.doc EXCEPT !.lead_art = la.elem], crashed |-> la.crashed]
RewriteKey(doc, old, new) ==
    RewriteLeadArt(
        RewritePromoBasic(
            RewriteRelatedContent(
                RewriteContentElements([doc |-> doc, crashed |-> FALSE], old, new),
                old, new),
            old, new),
        old, new)

\* The loop over combined_newids, the keys taken in the order keys gives.
RECURSIVE Rewrite(_, _, _, _)
Rewrite(doc, combined_newids, keys, i) ==
    IF i > Len(keys) THEN [doc |-> doc, crashed |-> FALSE]
    ELSE LET r == RewriteKey(doc, keys[i], combined_newids[keys[i]])
         IN  IF r.crashed THEN r ELSE Rewrite(r.doc, combined_newids, keys, i + 1)

\* Ids of the source tenant's Photo Center objects.
ImageIds == {"i1", "i2"}
GalleryIds == {"g1"}
PhotoId(i) == "p" \o ToString(i)

\* The orders in which a Python set of these ids can be iterated.
Orders(S) ==
    {f \in [1..Cardinality(S) -> S] : \A i, j \in 1..Cardinality(S) : f[i] = f[j] => i = j}

\* The GET of one gallery: get_galleries_url(self.to_org, gal_id) with the
\* source credential.
GalleryGet(ok) == Entry("GET", "gallery", ok, <<ToOrg, "arc_auth_header_source">>)

\* "for gal_id in references_galleries", from gallery i of the order on.
\* acc = [images_newids, log, crashed, keys]; direct tells whether the story has
\* direct image references, that is whether self.references.images is a dict:
\* self.references.images.update(...) raises AttributeError on None.
RECURSIVE GalleryLoop(_, _, _, _, _)
GalleryLoop(order, i, r, direct, acc) ==
    IF i > Len(order) \/ acc.crashed THEN acc
    ELSE LET ok == r.galleryOk[order[i]]
             n == r.photos[order[i]]
             gal_imgs == [j \in 1..n |-> PhotoId(j)]
             logged == Append(acc.log, GalleryGet(ok))
         IN  IF ~ok \/ n = 0
             THEN GalleryLoop(order, i + 1, r, direct, [acc EXCEPT !.log = logged])
             ELSE IF ~direct
             THEN [acc EXCEPT !.log = logged, !.crashed = TRUE,
                              !.images_newids = DictUpdate(@, NewIds({PhotoId(1)}))]
             ELSE GalleryLoop(order, i + 1, r, direct,
                    [acc EXCEPT !.log = logged,
                                !.images_newids = DictUpdate(@, NewIds(Range(gal_imgs))),
                                !.keys = @ \o gal_imgs])

\* Arc2ArcStory.transform_photo_references.  r.imageOrder and r.galleryOrder are
\* the orders of list(set(...)); the result tells whether an exception left it.
TransformPhotoReferences(doc, refs, r) ==
    LET references_images == ScanImages(doc)
        references_galleries == ScanGalleries(doc)
        header == (FromOrg :> ToOrg)
        direct == references_images # {}
        images0 == IF direct THEN DictUpdate(NewIds(references_images), header) ELSE EmptyDict
        galleries_newids ==
            IF references_galleries # {}
            THEN DictUpdate(NewIds(references_galleries), header) ELSE EmptyDict
        loop == GalleryLoop(r.galleryOrder, 1, r, direct,
                    [images_newids |-> images0, log |-> <<>>, crashed |-> FALSE,
                     keys |-> r.imageOrder \o (IF direct THEN <<FromOrg>> ELSE <<>>)])
        combined_newids == DictUpdate(loop.images_newids, galleries_newids)
        keys == loop.keys \o r.galleryOrder
                  \o (IF references_galleries # {} THEN <<FromOrg>> ELSE <<>>)
        rewritten == Rewrite(doc, combined_newids, keys, 1)
        refs1 == [refs EXCEPT !.images = IF direct THEN loop.images_newids ELSE @,
                              !.galleries = IF references_galleries # {}
                                            THEN galleries_newids ELSE @]
    IN  IF loop.crashed
        THEN [ans |-> doc, references |-> refs1, log |-> loop.log, crashed |-> TRUE,
              combined_newids |-> EmptyDict, keys |-> <<>>]
        ELSE [ans |-> rewritten.doc, references |-> refs1, log |-> loop.log,
              crashed |-> rewritten.crashed,
              combined_newids |-> combined_newids, keys |-> keys]

\* The photos the source tenant's gallery holds.
SourceGalleryPhotos(gal_id) == {PhotoId(i) : i \in 1..MaxPhotos}

SeqsUpTo(S, n) == UNION {[1..k -> S] : k \in 0..n}

\* Story documents: references to images and galleries, an inline image whose
\* _id is also referenced, and a text element.
StoryElements ==
    {Reference(i, "image") : i \in ImageIds} \cup {Reference(g, "gallery") : g \in GalleryIds}
        \cup {Inline("i1", "image"), Inline("t1", "text")}

NoSections == [primary_section |-> Absent, sections |-> <<>>]
StoryDocuments ==
    [_id : {"story1"},
     content_elements : SeqsUpTo(StoryElements, MaxElems),
     related_content : {<<>>, <<Reference("i2", "image")>>, <<Reference("g1", "gallery")>>},
     basic : {NoElement, Reference("i1", "image"), Inline("i1", "image")},
     lead_art : {NoElement, Reference("g1", "gallery")},
     taxonomy : {NoSections}]

\* ------------------------------------------------ circulation transforms
SectionIds == {"A", "B"}
TargetSection == "S"
SiteId(i) == "site" \o ToString(i)

\* One (section, website) entry of the report in references.circulation.
Pair(s, w) == [section |-> s, website |-> w]
SectionReferent(id, w) == [id |-> id, website |-> w]
NoSectionReferent == SectionReferent(Absent, Absent)
\* A section as the API returns it inside a video or gallery, and as a reference.
RawSection(id, w) == [_id |-> id, _website |-> w, referent |-> NoSectionReferent]
SectionReference(id, w) == [_id |-> Absent, _website |-> Absent, referent |-> SectionReferent(id, w)]
\* jmespath "a || b"
OrElse(a, b) == IF a # Absent THEN a ELSE b

\* One circulation record of a story.
CirculationRecord(w, primary, secs) ==
    [website_id |-> w,
     website_primary_section |-> SectionReferent(primary, w),
     website_sections |-> [j \in 1..Len(secs) |-> SectionReferent(secs[j], w)]]

\* "[*].website_sections[*].{section: referent.id, website: referent.website}[]"
RECURSIVE StoryPairs(_, _)
StoryPairs(circ, i) ==
    IF i > Len(circ) THEN <<>>
    ELSE [j \in 1..Len(circ[i].website_sections) |->
             Pair(circ[i].website_sections[j].id, circ[i].website_sections[j].website)]
         \o StoryPairs(circ, i + 1)

TargetSectionIdAlways(section_id, target_section) == target_section
\* "if self.target_section: circ2['referent']['id'] = self.target_section"
TargetSectionId(section_id, target_section) ==
    IF Truthy(target_section) THEN target_section ELSE section_id

\* "for circ in self.circulation", from record i on; with a target section the
\* loop is left by break after the first record.
RECURSIVE CirculationLoop(_, _, _)
CirculationLoop(circ, i, target_section) ==
    IF i > Len(circ) THEN circ
    ELSE LET c == circ[i]
             done == [circ EXCEPT ![i] =
                        [website_id |-> TargetWebsite,
                         website_primary_section |->
                            SectionReferent(TargetSectionId(c.website_primary_section.id,
                                                            target_section), TargetWebsite),
                         website_sections |->
                            [j \in 1..Len(c.website_sections) |->
                                SectionReferent(TargetSectionId(c.website_sections[j].id,
                                                                target_section),
                                                TargetWebsite)]]]
         IN  IF Truthy(target_section) THEN done
             ELSE CirculationLoop(done, i + 1, target_section)

\* Arc2ArcStory.transform_circulation
StoryTransformCirculation(circ, refs, target_section) ==
    LET source_circulation == StoryPairs(circ, 1)
        done == CirculationLoop(circ, 1, target_section)
        target_circulation == StoryPairs(done, 1)
    IN  [circulation |-> done,
         references |-> [refs EXCEPT !.circulation =
                            DictUpdate((FromOrg :> source_circulation),
                                       (ToOrg :> target_circulation))]]

\* "[*].{section: referent.id, website: referent.website}[]"
ReferencePairs(sections) ==
    [i \in 1..Len(sections) |-> Pair(sections[i].referent.id, sections[i].referent.website)]
\* video: "[*].{section: _id, website: _website}[]"
VideoSourcePairs(sections) ==
    [i \in 1..Len(sections) |-> Pair(sections[i]._id, sections[i]._website)]
\* gallery: "taxonomy.sections[*].{section: _id || referent.id, website: _website || referent.website}[]"
GallerySourcePairs(sections) ==
    [i \in 1..Len(sections) |-> Pair(OrElse(sections[i]._id, sections[i].referent.id),
                                     OrElse(sections[i]._website, sections[i].referent.website))]

\* Arc2ArcVideo.transform_circulation
VideoTransformCirculation(doc, refs, target_section) ==
    LET source_circulation == VideoSourcePairs(doc.taxonomy.sections)
        orig_primary_section_id == doc.taxonomy.primary_section._id
        sections ==
            IF Truthy(target_section)
            THEN <<SectionReference(target_section, TargetWebsite)>>
            ELSE [i \in 1..Len(doc.taxonomy.sections) |->
                     SectionReference(doc.taxonomy.sections[i]._id, TargetWebsite)]
        primary_section ==
            IF Truthy(target_section)
            THEN SectionReference(target_section, TargetWebsite)
            ELSE SectionReference(orig_primary_section_id, TargetWebsite)
        target_circulation == ReferencePairs(sections)
    IN  [ans |-> [doc EXCEPT !.taxonomy = [primary_section |-> primary_section,
                                           primary_site |-> Absent,
                                           sections |-> sections]],
         references |-> [refs EXCEPT !.circulation = (ToOrg :> target_circulation)]]

\* Arc2ArcGallery.transform_circulation
GalleryTransformCirculation(doc, refs, target_section) ==
    LET orig_section == OrElse(doc.taxonomy.primary_site._id,
                               doc.taxonomy.primary_site.referent.id)
        source_circulation == GallerySourcePairs(doc.taxonomy.sections)
        sections ==
            IF Truthy(target_section)
            THEN <<SectionReference(target_section, TargetWebsite)>>
            ELSE [i \in 1..Len(doc.taxonomy.sections) |->
                     SectionReference(OrElse(doc.taxonomy.sections[i]._id,
                                             doc.taxonomy.sections[i].referent.id),
                                      TargetWebsite)]
        primary_section ==
            IF Truthy(target_section)
            THEN SectionReference(target_section, TargetWebsite)
            ELSE SectionReference(orig_section, TargetWebsite)
        target_circulation == ReferencePairs(sections)
    IN  [ans |-> [doc EXCEPT !.taxonomy = [primary_section |-> primary_section,
                                           primary_site |-> Absent,
                                           sections |-> sections]],
         references |-> [refs EXCEPT !.circulation = (ToOrg :> target_circulation)]]

\* A section of a production video and the reference the sandbox script makes
\* of it; primary is the marker referent_properties.additional_properties.primary.
SandboxSection(id, w, primary) == [_id |-> id, _website |-> w, primary |-> primary]
SandboxReference(id, w, primary) == [referent |-> [id |-> id, website |-> w, primary |-> primary]]

\* "for i, s in enumerate(self.ans['taxonomy']['sections'])" from section i on:
\* every turn writes id, website and marker into the one dict section_reference.
RECURSIVE SharedReferenceLoop(_, _, _)
SharedReferenceLoop(sections, i, section_reference) ==
    IF i > Len(sections) THEN section_reference
    ELSE SharedReferenceLoop(sections, i + 1,
            SandboxReference(sections[i]._id, sections[i]._website, sections[i].primary))

\* Arc2SandboxVideo.transform_circulation.  primary_section and every entry of
\* sections are assigned the same dict, so all of them show what the last turn
\* of the loop wrote.
SandboxVideoTransformCirculation(doc) ==
    LET section_reference ==
            SharedReferenceLoop(doc.taxonomy.sections, 1,
                SandboxReference(doc.taxonomy.primary_section._id,
                                 doc.taxonomy.primary_section._website, TRUE))
    IN  [doc EXCEPT !.taxonomy =
            [primary_section |-> section_reference,
             primary_site |-> Absent,
             sections |-> [i \in 1..Len(doc.taxonomy.sections) |-> section_reference]]]

\* ------------------------------------------------ regenerated image ids
RegenIdForSource(old_id) == generate_arc_id(old_id, FromOrg)
\* "regen_id = arc_id.generate_arc_id(old_id, self.to_org)"
RegenId(old_id) == generate_arc_id(old_id, ToOrg)

\* Arc2ArcGallery.transform_content_elements
GalleryTransformContentElements(doc, refs) ==
    LET ce_imgs == doc.content_elements
        references_images_newids ==
            [old_id \in {ce_imgs[i]._id : i \in 1..Len(ce_imgs)} |-> RegenId(old_id)]
    IN  [ans |-> [doc EXCEPT !.content_elements =
                    [i \in 1..Len(ce_imgs) |-> Reference(RegenId(ce_imgs[i]._id), "image")]],
         references |-> [refs EXCEPT !.images =
                            DictUpdate((FromOrg :> ToOrg), references_images_newids)]]

\* Arc2ArcGallery.transform_promo_item
GalleryTransformPromoItem(doc) ==
    IF doc.basic # NoElement
    THEN [doc EXCEPT !.basic = Reference(generate_arc_id(doc.basic._id, ToOrg), "image")]
    ELSE doc

\* The Photo Center fields at the top level of an image and their copies in
\* additional_properties.
PhotoCenterFields(usage, photographer, credit) ==
    [usage_instructions |-> usage, photographer |-> photographer, creditIPTC |-> credit]
NoPhotoCenterFields == PhotoCenterFields(Absent, Absent, Absent)
\* "if <from>.get(f): <to>[f] = <from>.get(f)" for the three fields.
CopyOver(from, to) ==
    PhotoCenterFields(
        IF from.usage_instructions # Absent THEN from.usage_instructions
                                            ELSE to.usage_instructions,
        IF from.photographer # Absent THEN from.photographer ELSE to.photographer,
        IF from.creditIPTC # Absent THEN from.creditIPTC ELSE to.creditIPTC)

\* Arc2ArcImage.photo_center_specific_properties(remove=True)
PhotoCenterRemove(doc) ==
    [doc EXCEPT !.additional_properties = CopyOver(doc.top, doc.additional_properties),
                !.top = NoPhotoCenterFields]
\* Arc2ArcImage.photo_center_specific_properties(remove=False, put_back=True)
PhotoCenterPutBack(doc) ==
    [doc EXCEPT !.top = CopyOver(doc.additional_properties, doc.top),
                !.additional_properties = NoPhotoCenterFields]

\* Arc2ArcImage.fetch_source_ans (regen_image_arc_id) and transform_ans
ImageTransformAns(doc) ==
    PhotoCenterRemove([doc EXCEPT !._id = generate_arc_id(doc._id, ToOrg)])

\* Arc2ArcGallery.fetch_source_ans (regen_gallery_arc_id) and transform_ans
GalleryTransformAns(doc) == [doc EXCEPT !._id = generate_arc_id(doc._id, ToOrg)]

\* Arc2ArcLightbox.transform_lightbox_photos
TransformLightboxPhotos(doc, refs) ==
    LET images == doc.photos
    IN  IF images # <<>>
        THEN [ans |-> [doc EXCEPT !.lightbox_images_newids =
                          @ \o [i \in 1..Len(images) |-> generate_arc_id(images[i], ToOrg)]],
              references |-> [refs EXCEPT !.images =
                                DictUpdate((FromOrg :> ToOrg),
                                           [x \in Range(images) |-> generate_arc_id(x, ToOrg)])]]
        ELSE [ans |-> doc, references |-> refs]

\* ------------------------------------------------ the documents
NonEmptySeqs(S, n) == UNION {[1..k -> S] : k \in 1..n}

\* A story without Photo Center references, and a one-record circulation.
PlainStory ==
    [_id |-> "story1", content_elements |-> <<>>, related_content |-> <<>>,
     basic |-> NoElement, lead_art |-> NoElement, taxonomy |-> NoSections]
PlainCirculation == <<CirculationRecord(SiteId(1), "A", <<"A">>)>>
\* One to MaxRecords records, record i for website i, each with one to
\* MaxSections sections, the first of them primary.
StoryCirculations ==
    UNION {{[i \in 1..n |-> CirculationRecord(SiteId(i), secs[i][1], secs[i])] :
                secs \in [1..n -> NonEmptySeqs(SectionIds, MaxSections)]} : n \in 1..MaxRecords}

\* The sections of a video (as the API returns them) and of a gallery (either form).
VideoSections == NonEmptySeqs({RawSection(s, SiteId(1)) : s \in SectionIds}, MaxSections)
GallerySections ==
    NonEmptySeqs({RawSection(s, SiteId(1)) : s \in SectionIds}
                    \cup {SectionReference(s, SiteId(1)) : s \in SectionIds}, MaxSections)
Taxonomies(sectionLists) ==
    {[primary_section |-> secs[1], primary_site |-> RawSection(SiteId(1), Absent),
      sections |-> secs] : secs \in sectionLists}

VideoDocuments == [_id : {"video1"}, taxonomy : Taxonomies(VideoSections)]
\* Production videos for the sandbox script: the first section is the primary one.
SandboxVideoDocuments ==
    {[_id |-> "video1",
      taxonomy |-> [primary_section |-> SandboxSection(secs[1], SiteId(1), TRUE),
                    primary_site |-> SiteId(1),
                    sections |-> [i \in 1..Len(secs) |->
                                     SandboxSection(secs[i], SiteId(1), i = 1)]]] :
        secs \in NonEmptySeqs(SectionIds, MaxSections)}
GalleryDocuments ==
    [_id : {"gallery1"},
     content_elements : SeqsUpTo({Inline(i, "image") : i \in ImageIds}, MaxPhotos),
     basic : {NoElement} \cup {Inline(i, "image") : i \in ImageIds},
     taxonomy : Taxonomies(GallerySections)]
PhotoCenterValues == {Absent, "set"}
ImageDocuments ==
    [_id : ImageIds,
     top : {PhotoCenterFields(u, p, c) : u, p, c \in PhotoCenterValues},
     additional_properties : {NoPhotoCenterFields}]
LightboxDocuments == [photos : SeqsUpTo(ImageIds, MaxPhotos), lightbox_images_newids : {<<>>}]

DocKinds == {"story", "video", "video_sandbox", "gallery", "image", "lightbox"}
DocumentsOf(k) ==
    CASE k = "story" -> StoryDocuments
      [] k = "video" -> VideoDocuments
      [] k = "video_sandbox" -> SandboxVideoDocuments
      [] k = "gallery" -> GalleryDocuments
      [] k = "image" -> ImageDocuments
      [] k = "lightbox" -> LightboxDocuments
\* A story's photo references and its circulation are transformed
\* independently of each other: the stories vary one of the two at a time.
CirculationsOf(k, doc) ==
    IF k = "story" THEN IF doc = PlainStory THEN StoryCirculations ELSE {PlainCirculation}
    ELSE {<<>>}
\* --to-section: "" when not given.
TargetSectionsOf(k, doc) ==
    IF (k = "story" /\ doc = PlainStory) \/ k \in {"video", "gallery"}
    THEN {"", TargetSection} ELSE {""}
DocReferences == [images |-> EmptyDict, galleries |-> EmptyDict, circulation |-> EmptyDict]

\* Where doit stands in a document run: the transforms are done at DocDone;
\* DocProbe ends the run that applies the rewriter a second time.
DocDone == 9
DocProbe == 8
DocValidated == 10
DocPosted == 11
\* The first transform of doit: a gallery's transform_ans comes before the
\* transforms of its content.
DocStart(k) == IF k = "gallery" THEN 0 ELSE 1
\* The pipelines that validate the document and post it to Migration Center.
AnsDocKinds == {"story", "video", "gallery", "image"}
\* params["ansId"] of post_transformed_ans for the document fetched as src.
AnsId(k, src) == IF k = "image" THEN generate_arc_id(src._id, ToOrg) ELSE src._id

DocInit ==
    /\ kind \in DocKinds
    /\ ans \in DocumentsOf(kind)
    /\ circulation \in CirculationsOf(kind, ans)
    /\ references = DocReferences
    /\ prev = [ans |-> ans, circulation |-> circulation, keys |-> <<>>, first |-> ans,
               run |-> 1, done |-> ans]
    /\ source \in [target_section : TargetSectionsOf(kind, ans)]
    /\ dry_run = FALSE
    /\ tenant = [dist |-> {}, restr |-> {}, geo |-> {}]
    /\ validation = "None"
    /\ message = ""
    /\ pc = DocStart(kind)
    /\ status = "running"
    /\ log = <<>>
    /\ faulted = FALSE
    /\ bulk = NoBulk(0)

\* doit's call of transform_photo_references on the fetched story.
doc_transform_photo_references ==
    /\ kind = "story" /\ pc = 1 /\ status = "running"
    /\ \E imageOrder \in Orders(ScanImages(ans)), galleryOrder \in Orders(ScanGalleries(ans)),
          galleryOk \in [GalleryIds -> BOOLEAN], photos \in [GalleryIds -> 0..MaxPhotos] :
        LET t == TransformPhotoReferences(ans, references,
                    [imageOrder |-> imageOrder, galleryOrder |-> galleryOrder,
                     galleryOk |-> galleryOk, photos |-> photos])
        IN  /\ ans' = t.ans
            /\ references' = t.references
            /\ log' = Enter("transform_photo_references") \o t.log
            /\ status' = IF t.crashed THEN "crashed" ELSE "running"
            /\ prev' = [prev EXCEPT !.keys = t.keys, !.first = t.ans]
    /\ pc' = 2
    /\ UNCHANGED <<kind, dry_run, source, tenant, circulation, validation, message, faulted, bulk>>

\* The rewriting loop run once more, with the mapping and key order of the
\* first time, on the document as the first time left it.
doc_rewrite_again ==
    /\ kind = "story" /\ pc = 2
    /\ ans' = Rewrite(ans, DictUpdate(references.images, references.galleries), prev.keys, 1).doc
    /\ log' = Enter("rewrite_again")
    /\ pc' = DocProbe
    /\ UNCHANGED <<kind, dry_run, source, tenant, circulation, references, validation,
                   message, status, faulted, prev, bulk>>

\* doit's call of transform_circulation: story after the photo references,
\* video first, gallery after its content elements and promo item.
doc_transform_circulation ==
    /\ status = "running"
    /\ \/ kind = "story" /\ pc = 2
       \/ kind = "video" /\ pc = 1
       \/ kind = "video_sandbox" /\ pc = 1
       \/ kind = "gallery" /\ pc = 3
    /\ LET t == CASE kind = "story" ->
                        LET r == StoryTransformCirculation(circulation, references,
                                                           source.target_section)
                        IN  [ans |-> ans, circulation |-> r.circulation,
                             references |-> r.references]
                  [] kind = "video" ->
                        LET r == VideoTransformCirculation(ans, references,
                                                           source.target_section)
                        IN  [ans |-> r.ans, circulation |-> circulation,
                             references |-> r.references]
                  [] kind = "video_sandbox" ->
                        [ans |-> SandboxVideoTransformCirculation(ans),
                         circulation |-> circulation, references |-> references]
                  [] kind = "gallery" ->
                        LET r == GalleryTransformCirculation(ans, references,
                                                             source.target_section)
                        IN  [ans |-> r.ans, circulation |-> circulation,
                             references |-> r.references]
       IN  /\ ans' = t.ans
           /\ circulation' = t.circulation
           /\ references' = t.references
    /\ log' = Enter("transform_circulation")
    /\ pc' = DocDone
    /\ UNCHANGED <<kind, dry_run, source, tenant, validation, message, status, faulted,
                   prev, bulk>>

\* Arc2ArcGallery.doit: transform_content_elements
doc_transform_content_elements ==
    /\ kind = "gallery" /\ pc = 1 /\ status = "running"
    /\ LET t == GalleryTransformContentElements(ans, references)
       IN  ans' = t.ans /\ references' = t.references
    /\ log' = Enter("transform_content_elements")
    /\ pc' = 2
    /\ UNCHANGED <<kind, dry_run, source, tenant, circulation, validation, message, status,
                   faulted, prev, bulk>>

\* Arc2ArcGallery.doit: transform_promo_item
doc_transform_promo_item ==
    /\ kind = "gallery" /\ pc = 2 /\ status = "running"
    /\ ans' = GalleryTransformPromoItem(ans)
    /\ log' = Enter("transform_promo_item")
    /\ pc' = 3
    /\ UNCHANGED <<kind, dry_run, source, tenant, circulation, references, validation,
                   message, status, faulted, prev, bulk>>

\* Arc2ArcGallery.doit: transform_ans with the id regenerated in fetch_source_ans
doc_gallery_transform_ans ==
    /\ kind = "gallery" /\ pc = 0 /\ status = "running"
    /\ ans' = GalleryTransformAns(ans)
    /\ log' = Enter("transform_ans")
    /\ pc' = 1
    /\ UNCHANGED <<kind, dry_run, source, tenant, circulation, references, validation,
                   message, status, faulted, prev, bulk>>

\* Arc2ArcImage.doit: transform_ans with the id regenerated in fetch_source_ans
doc_image_transform_ans ==
    /\ kind = "image" /\ pc = 1 /\ status = "running"
    /\ ans' = ImageTransformAns(ans)
    /\ log' = Enter("transform_ans")
    /\ pc' = DocDone
    /\ UNCHANGED <<kind, dry_run, source, tenant, circulation, references, validation,
                   message, status, faulted, prev, bulk>>

\* Arc2ArcLightbox.doit: transform_lightbox_photos
doc_transform_lightbox_photos ==
    /\ kind = "lightbox" /\ pc = 1 /\ status = "running"
    /\ LET t == TransformLightboxPhotos(ans, references)
       IN  ans' = t.ans /\ references' = t.references
    /\ log' = Enter("transform_lightbox_photos")
    /\ pc' = DocDone
    /\ UNCHANGED <<kind, dry_run, source, tenant, circulation, validation, message, status,
                   faulted, prev, bulk>>

\* The script is run a second time on the same source document: a new object
\* of the class, the same fetched document.
doc_run_again ==
    /\ pc = DocDone /\ status = "running" /\ prev.run = 1
    /\ ans' = prev.ans
    /\ circulation' = prev.circulation
    /\ references' = DocReferences
    /\ prev' = [prev EXCEPT !.run = 2, !.done = ans]
    /\ log' = <<>>
    /\ pc' = DocStart(kind)
    /\ UNCHANGED <<kind, dry_run, source, tenant, validation, message, status, faulted, bulk>>

\* doit: validate_transform on the transformed document.  The image class
\* puts the Photo Center fields back once the validation has succeeded.
doc_validate_transform ==
    /\ kind \in AnsDocKinds /\ pc = DocDone /\ status = "running"
    /\ \E ok \in BOOLEAN :
        /\ validation' = IF ok THEN "True" ELSE "False"
        /\ log' = Append(log, Post("validate", ok, <<ans>>))
        /\ ans' = IF ok /\ kind = "image" THEN PhotoCenterPutBack(ans) ELSE ans
    /\ pc' = DocValidated
    /\ UNCHANGED <<kind, dry_run, source, tenant, circulation, references, message, status,
                   faulted, prev, bulk>>

\* doit: "elif not self.dry_run: self.post_transformed_ans()" after a
\* successful validation.
doc_post_transformed_ans ==
    /\ kind \in AnsDocKinds /\ pc = DocValidated /\ validation = "True" /\ ~dry_run
    /\ \E ok \in BOOLEAN :
        log' = Append(log, Post("ingest", ok, <<AnsId(kind, prev.ans), ans>>))
    /\ pc' = DocPosted
    /\ UNCHANGED <<kind, dry_run, source, tenant, ans, circulation, references, validation,
                   message, status, faulted, prev, bulk>>

DocNext ==
    \/ doc_transform_photo_references
    \/ doc_rewrite_again
    \/ doc_transform_circulation
    \/ doc_transform_content_elements
    \/ doc_transform_promo_item
    \/ doc_gallery_transform_ans
    \/ doc_image_transform_ans
    \/ doc_transform_lightbox_photos
    \/ doc_run_again
    \/ doc_validate_transform
    \/ doc_post_transformed_ans

DocSpec == DocInit /\ [][DocNext]_vars

\* The elements at the locations the rewriter visits, in a fixed order.
Occurrences(doc) ==
    doc.content_elements \o doc.related_content \o <<doc.basic, doc.lead_art>>
\* The elements at the locations the image scan reads.
ImageLocations(doc) == doc.content_elements \o doc.related_content \o <<doc.basic>>
ImageOccurrences(doc, ids) ==
    Cardinality({i \in 1..Len(ImageLocations(doc)) :
                    LET e == ImageLocations(doc)[i]
                    IN  HasReferent(e) /\ e.referent.type = "image" /\ e.referent.id \in ids})

\* transform_photo_references has run on the story (whether or not it returned).
PhotoReferencesDone == kind = "story" /\ pc = 2

\* C11: after transform_photo_references every occurrence is either untouched
\* or has both _id and referent.id equal to the new id, with referent.type as
\* it was; no occurrence has a replaced _id and a referent.id that was not.
C11_NoPartialRewrite ==
    PhotoReferencesDone =>
        \A i \in 1..Len(Occurrences(ans)) :
            LET old == Occurrences(prev.ans)[i]
                now == Occurrences(ans)[i]
                new_id == generate_arc_id(old._id, ToOrg)
            IN  \/ now = old
                \/ /\ now._id = new_id
                   /\ HasReferent(now) /\ now.referent.id = new_id
                   /\ now.referent.type = old.referent.type

\* C12: after scanning, generating and rewriting, a new scan of the same
\* locations finds none of the old image ids, and finds the new ids at as many
\* occurrences as the old ids had.
C12_RewriteRoundTrip ==
    PhotoReferencesDone =>
        LET old_ids == ScanImages(prev.ans)
            new_ids == {generate_arc_id(x, ToOrg) : x \in old_ids}
        IN  /\ ImageOccurrences(ans, old_ids) = 0
            /\ ImageOccurrences(ans, new_ids) = ImageOccurrences(prev.ans, old_ids)

\* C13: applying the rewriter a second time with the same mapping leaves the
\* document exactly as the first application left it.
C13_RewriteIdempotent ==
    kind = "story" /\ pc = DocProbe => ans = prev.first

GalleryGets == {i \in 1..Len(log) : log[i].what = "GET" /\ log[i].name = "gallery"}

\* C14: for a story that references at least one gallery, each gallery's
\* content is fetched from the source tenant, and the image mapping holds
\* old -> generate_arc_id(old, destination) for every image of each such
\* gallery and for the story's direct image references.
C14_GalleryImagesMapped ==
    PhotoReferencesDone /\ ScanGalleries(prev.ans) # {} =>
        /\ Cardinality(GalleryGets) = Cardinality(ScanGalleries(prev.ans))
        /\ \A i \in GalleryGets : log[i].body[1] = FromOrg
        /\ \A x \in ScanImages(prev.ans)
                    \cup UNION {SourceGalleryPhotos(g) : g \in ScanGalleries(prev.ans)} :
              DictGet(references.images, x, Null) = generate_arc_id(x, ToOrg)

\* transform_circulation has run in a pipeline that has it.
CirculationDone == kind \in {"story", "video", "gallery"} /\ pc = DocDone
\* The (section, website) entries of the source document and of the result.
SourceEntries ==
    CASE kind = "story" -> StoryPairs(prev.circulation, 1)
      [] kind = "video" -> VideoSourcePairs(prev.ans.taxonomy.sections)
      [] kind = "gallery" -> GallerySourcePairs(prev.ans.taxonomy.sections)
TransformedEntries ==
    CASE kind = "story" -> StoryPairs(circulation, 1)
      [] kind \in {"video", "gallery"} -> ReferencePairs(ans.taxonomy.sections)

\* C15: with a target section S, the story circulation that goes to ingestion
\* has exactly one (section, website) entry, S at the target website, and its
\* primary section is S at the target website.
C15_CirculationCollapse ==
    kind = "story" /\ pc = DocDone /\ source.target_section = TargetSection =>
        /\ TransformedEntries = <<Pair(TargetSection, TargetWebsite)>>
        /\ \A i \in 1..Len(circulation) :
              circulation[i].website_primary_section
                  = SectionReferent(TargetSection, TargetWebsite)

\* C16: with no target section, the transformed section list of a story, a
\* video and a gallery has the length of the source list, the same section ids
\* in the same order, and the target website in every entry.
C16_CirculationPreserve ==
    CirculationDone /\ source.target_section = "" =>
        /\ Len(TransformedEntries) = Len(SourceEntries)
        /\ \A i \in 1..Len(TransformedEntries) :
              /\ TransformedEntries[i].section = SourceEntries[i].section
              /\ TransformedEntries[i].website = TargetWebsite

\* A story circulated to two websites, with two different sections in its
\* first record, has been transformed without a target section.
C16_Witness ==
    /\ kind = "story" /\ pc = DocDone /\ source.target_section = ""
    /\ Len(prev.circulation) = 2
    /\ Len(SourceEntries) >= 3
    /\ SourceEntries[1].section # SourceEntries[2].section
    /\ SourceEntries[1].website # TargetWebsite

\* C17: after transform_circulation, references.circulation holds the source
\* entries under the source tenant's key and the transformed entries under the
\* destination tenant's key.
C17_CirculationReport ==
    CirculationDone =>
        /\ DOMAIN references.circulation = {FromOrg, ToOrg}
        /\ references.circulation[FromOrg] = SourceEntries
        /\ references.circulation[ToOrg] = TransformedEntries

\* C18: the id written for image X is generate_arc_id(X, destination) in a
\* gallery's content_elements and promo item, in the story's image mapping and
\* rewritten references, in the lightbox photo list and as the _id of the
\* migrated image; a second run writes the same ids.
C18_IdConsistency ==
    pc = DocDone /\ status = "running" =>
        /\ kind = "gallery" =>
              /\ Len(ans.content_elements) = Len(prev.ans.content_elements)
              /\ \A i \in 1..Len(ans.content_elements) :
                    LET new_id == generate_arc_id(prev.ans.content_elements[i]._id, ToOrg)
                    IN  /\ ans.content_elements[i]._id = new_id
                        /\ ans.content_elements[i].referent.id = new_id
                        /\ references.images[prev.ans.content_elements[i]._id] = new_id
              /\ prev.ans.basic # NoElement =>
                    /\ ans.basic._id = generate_arc_id(prev.ans.basic._id, ToOrg)
                    /\ ans.basic.referent.id = generate_arc_id(prev.ans.basic._id, ToOrg)
        /\ kind = "story" =>
              /\ \A x \in ScanImages(prev.ans) :
                    references.images[x] = generate_arc_id(x, ToOrg)
              /\ \A i \in 1..Len(ImageLocations(ans)) :
                    LET old == ImageLocations(prev.ans)[i]
                    IN  HasReferent(old) /\ old.referent.type = "image" =>
                            ImageLocations(ans)[i].referent.id
                                = generate_arc_id(old.referent.id, ToOrg)
        /\ kind = "lightbox" =>
              ans.lightbox_images_newids
                  = [i \in 1..Len(prev.ans.photos) |-> generate_arc_id(prev.ans.photos[i], ToOrg)]
        /\ kind = "image" => ans._id = generate_arc_id(prev.ans._id, ToOrg)
        /\ prev.run = 2 /\ kind \in {"gallery", "story", "lightbox", "image"} =>
              ans = prev.done

\* A gallery with images and a promo image has been transformed a second time.
C18_Witness ==
    /\ kind = "gallery" /\ pc = DocDone /\ status = "running" /\ prev.run = 2
    /\ Len(prev.ans.content_elements) >= 2
    /\ prev.ans.basic # NoElement
    /\ ans.basic._id = generate_arc_id(prev.ans.basic._id, ToOrg)

\* ------------------------------------------------ ingestion and validation
IngestFailed == \E i \in Posts(log, "ingest") : ~log[i].ok

\* C21: in the story, video, gallery and image pipelines, after an ingestion
\* POST that was answered with a non-success status the run holds a non-empty
\* diagnostic message, has issued no second ingestion POST and (story) no
\* redirect-creation call.
C21_IngestFailureReported ==
    kind \in {"story", "video", "gallery", "image"} /\ IngestFailed =>
        /\ message \notin {"", "None"}
        /\ Cardinality(Posts(log, "ingest")) = 1
        /\ Posts(log, "redirect") = {}

\* C23: in every ANS pipeline and its sandbox variant the validation request
\* goes to the destination tenant's validation endpoint with the destination
\* credential, never to the source tenant.
C23_ValidationAtDestination ==
    kind \in AnsKinds =>
        \A i \in ValidationCalls(log) :
            /\ log[i].body[1] = "to_org"
            /\ log[i].body[3] = "arc_auth_header_target"

\* The successful GETs of the story's redirect list.
RedirectsListed == {i \in 1..Len(log) : log[i].what = "GET" /\ log[i].name = "redirects"
                                          /\ log[i].ok}

\* C24: after a successful ingestion POST of a non-dry-run story whose source
\* redirect list has n entries, exactly n redirect-creation POSTs are issued,
\* one per entry in list order, whichever of them fail.
C24_EveryRedirectAttempted ==
    kind \in StoryKinds /\ ~dry_run /\ status # "running" =>
        \A g \in RedirectsListed : \A n \in 0..MaxRedirects :
            log[g].body = <<ToString(n)>> =>
                /\ Len(log) = g + n
                /\ \A i \in 1..n : log[g + i] = Post("redirect", log[g + i].ok, <<ToString(i)>>)

\* The authors the bulk author driver has processed: each Arc2ArcAuthor.doit
\* begins by asking the destination for the author.
AuthorsProcessed == {i \in 1..Len(log) : log[i].what = "GET" /\ log[i].name = "target_exists"}

\* C25: with a cap N >= 1 the bulk author driver processes at most N authors
\* and the bulk redirect driver at most N redirects over all pages.
C25_CapBoundsProcessing ==
    bulk.test_run >= 1 =>
        /\ kind = "authors" => Cardinality(AuthorsProcessed) <= bulk.test_run
        /\ kind = "redirects" => bulk.runcount <= bulk.test_run

\* The queries of the bulk redirect driver, and the last of them.
Scans == {i \in 1..Len(log) : log[i].what = "GET" /\ log[i].name = "scan"}
LastScan == log[CHOOSE i \in Scans : \A j \in Scans : j <= i]

\* C26: the bulk redirect driver goes on to a further query only if the last
\* response carried results and a next-page token, the query carries that
\* token, and the cap has not been reached.
C26_PaginationProtocol ==
    kind = "redirects" /\ status = "running" /\ Scans # {} =>
        /\ LastScan.body[4] = "results"
        /\ LastScan.body[3] # Null
        /\ LastScan.body[3] \in {bulk.searchFrom, bulk.scrollId}
        /\ ~(bulk.test_run >= 1 /\ bulk.runcount >= bulk.test_run)

\* C27: in the production-to-sandbox video pipeline, after transform_circulation
\* entry i of taxonomy.sections is a reference with the id and website of
\* source section i, and taxonomy.primary_section carries the id and website of
\* the source primary section with the primary marker.
C27_SandboxSectionsKept ==
    kind = "video_sandbox" /\ pc = DocDone =>
        LET src == prev.ans.taxonomy
            now == ans.taxonomy
        IN  /\ Len(now.sections) = Len(src.sections)
            /\ \A i \in 1..Len(now.sections) :
                  /\ now.sections[i].referent.id = src.sections[i]._id
                  /\ now.sections[i].referent.website = src.sections[i]._website
            /\ now.primary_section
                  = SandboxReference(src.primary_section._id, src.primary_section._website, TRUE)

\* C28: without a target section, the primary_section of a transformed video
\* or gallery refers to the source document's primary section id at the target
\* website.
C28_PrimarySectionPreserved ==
    kind \in {"video", "gallery"} /\ pc = DocDone /\ source.target_section = "" =>
        ans.taxonomy.primary_section.referent
            = SectionReferent(OrElse(prev.ans.taxonomy.primary_section._id,
                                     prev.ans.taxonomy.primary_section.referent.id),
                              TargetWebsite)

\* The ingestion POSTs of the run and the validation calls that succeeded.
IngestPosts == Posts(log, "ingest")
Accepted == {i \in Posts(log, "validate") : log[i].ok}

\* C22: the document sent in the ingestion POST is the document that the
\* validation call of the same run accepted.
C22_PostedIsValidated ==
    kind \in AnsDocKinds =>
        \A p \in IngestPosts :
            \E v \in Accepted : v < p /\ log[v].body[1] = log[p].body[2]

\* C29: the ansId query parameter of the ingestion POST equals the _id of the
\* document sent in that POST.
C29_AnsIdIsDocumentId ==
    kind \in AnsDocKinds =>
        \A p \in IngestPosts : log[p].body[1] = log[p].body[2]._id

\* The identifiers the scan of the story discovers: direct image ids, gallery
\* ids and the ids of the images inside the referenced galleries.
Discovered(doc) ==
    ScanImages(doc) \cup ScanGalleries(doc)
        \cup UNION {SourceGalleryPhotos(g) : g \in ScanGalleries(doc)}

\* C30: the keys of the old-to-new mapping the rewriter applies are
\* identifiers discovered by scanning; the source tenant name added as the
\* report header is not one of them.
C30_MappingKeysDiscovered ==
    PhotoReferencesDone =>
        \A i \in 1..Len(prev.keys) : prev.keys[i] \in Discovered(prev.ans)

====
